---- MODULE Spec2Model ----
(***************************************************************************)
(* Model of the system registry of yaks' Executor<H> (src/src/executor.rs) *)
(* built with the "parallel" feature: insertion, replacement and removal   *)
(* of systems keyed by handles, the from-scratch topological re-sort and   *)
(* its rollback path.                                                      *)
(*                                                                         *)
(* Handles are modelled as small positive integers (H = an integer type),  *)
(* so that format!("{:?}", handle) is the decimal rendering ToString(h).   *)
(* System bodies are opaque tokens 1..NumBodies.                           *)
(***************************************************************************)
EXTENDS Integers, Sequences, FiniteSets, TLC

\* ---- bounds of the model ----
NumHandles == 2
NumBodies == 1
MaxDeps == 1
MaxSystems == 2
MaxSorted == 3
MaxHistory == 3

Handles == 1..NumHandles
Bodies == 1..NumBodies

\* Option<H>::None for the handle argument of insert_inner
NoHandle == 0

\* Option::None / Option::Some((deps, system))
None == <<"None">>
Some(deps, system) == <<"Some", deps, system>>

RECURSIVE SeqsUpTo(_, _)
SeqsUpTo(S, n) ==
    IF n = 0 THEN {<<>>}
    ELSE LET shorter == SeqsUpTo(S, n - 1)
         IN shorter \cup {Append(s, x) : s \in {t \in shorter : Len(t) = n - 1}, x \in S}

\* the dependency lists callers pass
DepLists == SeqsUpTo(Handles, MaxDeps)

Range(s) == {s[k] : k \in DOMAIN s}

\* iteration orders HashMap::keys() may produce over a key set
Orders(S) ==
    {o \in [1..Cardinality(S) -> S] : \A a, b \in 1..Cardinality(S) : a # b => o[a] # o[b]}

MapRemove(f, k) == [x \in (DOMAIN f) \ {k} |-> f[x]]
MapInsert(f, k, v) == [x \in (DOMAIN f) \cup {k} |-> IF x = k THEN v ELSE f[x]]

VARIABLES systems, system_handles, free_indices, systems_sorted, borrows,
          conflicts, last, history, exec

vars == <<systems, system_handles, free_indices, systems_sorted, borrows,
          conflicts, last, history, exec>>

\* exec: the position of a call of run / run_with_scope in its loop over
\* systems_sorted, the bodies that are running, the bodies invoked and
\* returned so far, the world and resource state the bodies have produced,
\* and (prev) the outcome of the run made just before on the same registry
IdleExec ==
    [mode |-> "idle", kind |-> "none", pos |-> 1, running |-> {},
     invoked |-> <<>>, finished |-> <<>>, world |-> <<>>, prev |-> <<>>]

\* no run is in progress: the executor is borrowed mutably during a run
Quiescent == exec.mode # "active"

\* history: the calls made on the executor since Executor::new(), kept while
\* there are at most MaxHistory of them
Overflow == <<[op |-> "overflow", handle |-> NoHandle, dependencies |-> <<>>]>>
Log(h, op, handle, dependencies) ==
    IF h = Overflow \/ Len(h) >= MaxHistory THEN Overflow
    ELSE Append(h, [op |-> op, handle |-> handle, dependencies |-> dependencies])

\* ---- collaborators outside executor.rs ----

\* SystemContainer::new(system, dependencies): active defaults to true
SystemContainerNew(system, dependencies) ==
    [system |-> system, dependencies |-> dependencies, active |-> TRUE]

\* SystemContainer::unwrap_container: (dependencies, system)
UnwrapContainer(c) == Some(c.dependencies, c.system)

\* declared access of each system body: body 1 writes resource 1,
\* every other body reads resource 1
BorrowsContainerNew(system) ==
    [resources_read |-> IF system = 1 THEN {} ELSE {1},
     resources_written |-> IF system = 1 THEN {1} ELSE {}]

\* exclusive vs shared-or-exclusive on the same resource type
BorrowsConflict(a, b) ==
    \/ a.resources_written \cap (b.resources_read \cup b.resources_written) # {}
    \/ b.resources_written \cap (a.resources_read \cup a.resources_written) # {}

\* condense_borrows: the conflict relation over the indices of borrows
CondenseBorrows(bs) ==
    {<<i, j>> \in (DOMAIN bs) \X (DOMAIN bs) : i # j /\ BorrowsConflict(bs[i], bs[j])}

\* ---- Executor ----

Init ==
    /\ systems = <<>>
    /\ system_handles = <<>>
    /\ free_indices = <<>>
    /\ systems_sorted = <<>>
    /\ borrows = <<>>
    /\ conflicts = {}
    /\ last = [op |-> "new", handle |-> NoHandle, dependencies |-> <<>>,
               system |-> 0, index |-> 0, result |-> "Ok", value |-> None,
               err |-> ""]
    /\ history = <<>>
    /\ exec = IdleExec

\* new_system_index: [index, free] after popping the free list
NewSystemIndex(free, sys) ==
    IF Len(free) > 0
    THEN [index |-> free[Len(free)], free |-> SubSeq(free, 1, Len(free) - 1)]
    ELSE [index |-> Cardinality(DOMAIN sys), free |-> free]

\* resolve_handle with unwrap_or_default() in the place of ok_or(NoSuchSystem)
ResolveHandleOrDefault(handles, handle) ==
    IF handle \in DOMAIN handles THEN <<"Ok", handles[handle]>> ELSE <<"Ok", 0>>

\* resolve_handle
ResolveHandle(handles, handle) ==
    IF handle \in DOMAIN handles THEN <<"Ok", handles[handle]>> ELSE <<"Err">>

\* contains
Contains(handles, handle) == handle \in DOMAIN handles

\* the loop over one system's dependencies (executor.rs 164-178)
RECURSIVE DependencyScan(_, _, _, _)
DependencyScan(deps, k, handles, sorted) ==
    IF k > Len(deps) THEN [status |-> "satisfied", handle |-> ""]
    ELSE LET r == ResolveHandle(handles, deps[k])
         IN IF r[1] = "Err"
            THEN [status |-> "invalid", handle |-> ToString(deps[k])]
            ELSE IF r[2] \notin Range(sorted)
                 THEN [status |-> "unsatisfied", handle |-> ""]
                 ELSE DependencyScan(deps, k + 1, handles, sorted)

\* one pass of the for loop over the not yet sorted keys (executor.rs 157-187)
RECURSIVE ScanPass(_, _, _, _, _)
ScanPass(cands, k, sys, handles, sorted) ==
    IF k > Len(cands)
    THEN [cycles |-> TRUE, invalid |-> FALSE, handle |-> "", sorted |-> sorted]
    ELSE LET st == DependencyScan(sys[cands[k]].dependencies, 1, handles, sorted)
         IN IF st.status = "invalid"
            THEN [cycles |-> TRUE, invalid |-> TRUE, handle |-> st.handle,
                  sorted |-> sorted]
            ELSE IF st.status = "satisfied"
                 THEN [cycles |-> FALSE, invalid |-> FALSE, handle |-> "",
                       sorted |-> Append(sorted, cands[k])]
                 ELSE ScanPass(cands, k + 1, sys, handles, sorted)

\* the while loop of the re-sort (executor.rs 156-206); order is the
\* iteration order of systems.keys() during this call
RECURSIVE SortLoop(_, _, _, _)
SortLoop(sys, handles, order, sorted) ==
    IF Len(sorted) = Cardinality(DOMAIN sys)
    THEN [result |-> "Ok", err |-> "", sorted |-> sorted]
    ELSE LET cands == SelectSeq(order, LAMBDA i : i \notin Range(sorted))
             p == ScanPass(cands, 1, sys, handles, sorted)
         IN IF p.cycles \/ p.invalid
            THEN [result |-> IF p.invalid THEN "DependencyNotFound"
                             ELSE "CyclicDependency",
                  err |-> p.handle, sorted |-> p.sorted]
            ELSE SortLoop(sys, handles, order, p.sorted)

\* insert_inner (executor.rs 122-214)
InsertInner(op, system, handle, dependencies) ==
    LET system_container == SystemContainerNew(system, dependencies)
        borrows_container == BorrowsContainerNew(system)
        bound == handle # NoHandle /\ handle \in DOMAIN system_handles
        fresh == NewSystemIndex(free_indices, systems)
        new_index == IF bound THEN system_handles[handle] ELSE fresh.index
        handles1 == IF handle # NoHandle /\ ~bound
                    THEN MapInsert(system_handles, handle, new_index)
                    ELSE system_handles
        free1 == IF bound THEN free_indices ELSE fresh.free
        has_dependencies == Len(dependencies) # 0
        had_borrows == new_index \in DOMAIN borrows
        borrows1 == MapInsert(borrows, new_index, borrows_container)
        had_system == new_index \in DOMAIN systems
        removed_system == IF had_system THEN UnwrapContainer(systems[new_index])
                          ELSE None
        systems1 == MapInsert(systems, new_index, system_container)
        call == [op |-> op, handle |-> handle, dependencies |-> dependencies,
                 system |-> system, index |-> new_index]
    IN /\ Quiescent
       /\ exec' = IdleExec
       /\ Cardinality(DOMAIN systems1) <= MaxSystems
       /\ history' = Log(history, op, handle, dependencies)
       /\ system_handles' = handles1
       /\ free_indices' = free1
       /\ IF has_dependencies
          THEN \E order \in Orders(DOMAIN systems1) :
                 LET s == SortLoop(systems1, handles1, order, <<>>)
                 IN /\ systems_sorted' = s.sorted
                    /\ IF s.result = "Ok"
                       THEN /\ systems' = systems1
                            /\ borrows' = borrows1
                            /\ conflicts' = CondenseBorrows(borrows1)
                            /\ last' = call @@ [result |-> "Ok",
                                                value |-> removed_system,
                                                err |-> ""]
                       ELSE /\ borrows' = IF had_borrows
                                          THEN MapInsert(borrows1, new_index,
                                                         borrows[new_index])
                                          ELSE borrows1
                            /\ systems' = IF had_system
                                          THEN MapInsert(systems1, new_index,
                                                 SystemContainerNew(
                                                   removed_system[3],
                                                   removed_system[2]))
                                          ELSE systems1
                            /\ conflicts' = conflicts
                            /\ last' = call @@ [result |-> s.result,
                                                value |-> None,
                                                err |-> s.err]
          ELSE /\ Len(systems_sorted) < MaxSorted
               /\ systems_sorted' = Append(systems_sorted, new_index)
               /\ systems' = systems1
               /\ borrows' = borrows1
               /\ conflicts' = CondenseBorrows(borrows1)
               /\ last' = call @@ [result |-> "Ok", value |-> removed_system,
                                   err |-> ""]

\* insert
Insert ==
    \E system \in Bodies : InsertInner("insert", system, NoHandle, <<>>)

\* insert_with_handle
InsertWithHandle ==
    \E system \in Bodies, handle \in Handles :
        InsertInner("insert_with_handle", system, handle, <<>>)

\* insert_with_deps
InsertWithDeps ==
    \E system \in Bodies, dependencies \in DepLists :
        InsertInner("insert_with_deps", system, NoHandle, dependencies)

\* insert_with_handle_and_deps
InsertWithHandleAndDeps ==
    \E system \in Bodies, handle \in Handles, dependencies \in DepLists :
        InsertInner("insert_with_handle_and_deps", system, handle, dependencies)

\* remove (executor.rs 245-257)
Remove ==
    \E handle \in Handles :
        LET call == [op |-> "remove", handle |-> handle, dependencies |-> <<>>,
                     system |-> 0, result |-> "Ok", err |-> ""]
            index == system_handles[handle]
            borrows1 == MapRemove(borrows, index)
        IN /\ Quiescent
           /\ exec' = IdleExec
           /\ history' = Log(history, "remove", handle, <<>>)
           /\ IF handle \in DOMAIN system_handles
              THEN /\ system_handles' = MapRemove(system_handles, handle)
                   /\ borrows' = borrows1
                   /\ conflicts' = CondenseBorrows(borrows1)
                   /\ systems' = MapRemove(systems, index)
                   /\ last' = call @@ [index |-> index,
                                       value |-> IF index \in DOMAIN systems
                                                 THEN UnwrapContainer(systems[index])
                                                 ELSE None]
                   /\ UNCHANGED <<free_indices, systems_sorted>>
              ELSE /\ last' = call @@ [index |-> 0, value |-> None]
                   /\ UNCHANGED <<systems, system_handles, free_indices,
                                  systems_sorted, borrows, conflicts>>

\* set_active (executor.rs 282-288); expect(INVALID_INDEX) on an index
\* without a container is the result "panic"
SetActive ==
    \E handle \in Handles, active \in BOOLEAN :
        LET call == [op |-> "set_active", handle |-> handle,
                     dependencies |-> <<>>, system |-> 0, value |-> None,
                     err |-> "", active |-> active]
            r == ResolveHandle(system_handles, handle)
        IN /\ Quiescent
           /\ exec' = IdleExec
           /\ history' = Log(history, "set_active", handle, <<>>)
           /\ IF r[1] = "Err"
              THEN /\ last' = call @@ [index |-> 0, result |-> "NoSuchSystem"]
                   /\ UNCHANGED <<systems, system_handles, free_indices,
                                  systems_sorted, borrows, conflicts>>
              ELSE IF r[2] \in DOMAIN systems
                   THEN /\ systems' = [systems EXCEPT ![r[2]].active = active]
                        /\ last' = call @@ [index |-> r[2], result |-> "Ok"]
                        /\ UNCHANGED <<system_handles, free_indices,
                                       systems_sorted, borrows, conflicts>>
                   ELSE /\ last' = call @@ [index |-> r[2], result |-> "panic"]
                        /\ UNCHANGED <<systems, system_handles, free_indices,
                                       systems_sorted, borrows, conflicts>>

\* is_active (executor.rs 274-280)
IsActive ==
    \E handle \in Handles :
        LET call == [op |-> "is_active", handle |-> handle,
                     dependencies |-> <<>>, system |-> 0, err |-> ""]
            r == ResolveHandle(system_handles, handle)
        IN /\ Quiescent
           /\ exec' = IdleExec
           /\ history' = Log(history, "is_active", handle, <<>>)
           /\ last' = IF r[1] = "Err"
                      THEN call @@ [index |-> 0, result |-> "NoSuchSystem",
                                    value |-> None]
                      ELSE IF r[2] \in DOMAIN systems
                           THEN call @@ [index |-> r[2], result |-> "Ok",
                                         value |-> <<"Bool", systems[r[2]].active>>]
                           ELSE call @@ [index |-> r[2], result |-> "panic",
                                         value |-> None]
           /\ UNCHANGED <<systems, system_handles, free_indices,
                          systems_sorted, borrows, conflicts>>

\* get_mut (executor.rs 263-272): the caller may assign any system through
\* the mutable view; borrows is not refreshed
GetMut ==
    \E handle \in Handles, system \in Bodies :
        LET call == [op |-> "get_mut", handle |-> handle,
                     dependencies |-> <<>>, system |-> system, value |-> None,
                     err |-> ""]
            r == ResolveHandle(system_handles, handle)
        IN /\ Quiescent
           /\ exec' = IdleExec
           /\ history' = Log(history, "get_mut", handle, <<>>)
           /\ IF r[1] = "Err"
              THEN /\ last' = call @@ [index |-> 0, result |-> "NoSuchSystem"]
                   /\ UNCHANGED systems
              ELSE IF r[2] \in DOMAIN systems
                   THEN /\ systems' = [systems EXCEPT ![r[2]].system = system]
                        /\ last' = call @@ [index |-> r[2], result |-> "Ok"]
                   ELSE /\ last' = call @@ [index |-> r[2], result |-> "panic"]
                        /\ UNCHANGED systems
           /\ UNCHANGED <<system_handles, free_indices, systems_sorted,
                          borrows, conflicts>>

\* what a system body does to the world and resource state when it runs: a
\* body that writes a resource leaves its mark after the earlier writes
BodyEffect(world, index, system) ==
    IF BorrowsContainerNew(system).resources_written # {}
    THEN Append(world, index)
    ELSE world

\* a call of run or run_with_scope begins (executor.rs 290, 302)
StartRun(kind) ==
    /\ Quiescent
    /\ exec' = [IdleExec EXCEPT
                   !.mode = "active", !.kind = kind,
                   !.prev = IF exec.mode \in {"done", "panic"}
                            THEN <<[kind |-> exec.kind, result |-> exec.mode,
                                    invoked |-> exec.invoked,
                                    world |-> exec.world]>>
                            ELSE <<>>]
    /\ history' = Log(history, kind, NoHandle, <<>>)
    /\ last' = [op |-> kind, handle |-> NoHandle, dependencies |-> <<>>,
                system |-> 0, index |-> 0, result |-> "Ok", value |-> None,
                err |-> ""]
    /\ UNCHANGED <<systems, system_handles, free_indices, systems_sorted,
                   borrows, conflicts>>

\* run (executor.rs 290-299)
Run == StartRun("run")

\* run_with_scope (executor.rs 301-317)
RunWithScope == StartRun("run_with_scope")

\* the for loop with the body handed to the scope instead of called: the
\* next iteration starts while earlier bodies are still running
LoopStepSpawning ==
    /\ exec.mode = "active"
    /\ exec.pos <= Len(systems_sorted)
    /\ LET index == systems_sorted[exec.pos]
       IN exec' = IF index \notin DOMAIN systems
                  THEN [exec EXCEPT !.mode = "panic"]
                  ELSE IF systems[index].active
                       THEN [exec EXCEPT !.pos = @ + 1,
                                         !.running = @ \cup {index},
                                         !.invoked = Append(@, index)]
                       ELSE [exec EXCEPT !.pos = @ + 1]
    /\ UNCHANGED <<systems, system_handles, free_indices, systems_sorted,
                   borrows, conflicts, last, history>>

\* one iteration of the for loop over systems_sorted (executor.rs 291-298,
\* 309-316): the next iteration starts when the call of the previous body
\* has returned
LoopStep ==
    /\ exec.mode = "active"
    /\ exec.running = {}
    /\ exec.pos <= Len(systems_sorted)
    /\ LET index == systems_sorted[exec.pos]
       IN exec' = IF index \notin DOMAIN systems
                  THEN [exec EXCEPT !.mode = "panic"]
                  ELSE IF systems[index].active
                       THEN [exec EXCEPT !.pos = @ + 1,
                                         !.running = @ \cup {index},
                                         !.invoked = Append(@, index)]
                       ELSE [exec EXCEPT !.pos = @ + 1]
    /\ UNCHANGED <<systems, system_handles, free_indices, systems_sorted,
                   borrows, conflicts, last, history>>

\* System::run / System::run_with_scope returns
BodyReturn ==
    /\ exec.mode = "active"
    /\ \E index \in exec.running :
          exec' = [exec EXCEPT
                     !.running = @ \ {index},
                     !.finished = Append(@, index),
                     !.world = BodyEffect(@, index, systems[index].system)]
    /\ UNCHANGED <<systems, system_handles, free_indices, systems_sorted,
                   borrows, conflicts, last, history>>

\* the loop is over and the call returns (executor.rs 299, 317)
RunReturn ==
    /\ exec.mode = "active"
    /\ exec.running = {}
    /\ exec.pos > Len(systems_sorted)
    /\ exec' = [exec EXCEPT !.mode = "done"]
    /\ UNCHANGED <<systems, system_handles, free_indices, systems_sorted,
                   borrows, conflicts, last, history>>

Next ==
    \/ Insert
    \/ InsertWithHandle
    \/ InsertWithDeps
    \/ InsertWithHandleAndDeps
    \/ Remove
    \/ SetActive
    \/ IsActive
    \/ GetMut
    \/ Run
    \/ RunWithScope
    \/ LoopStep
    \/ BodyReturn
    \/ RunReturn

Spec == Init /\ [][Next]_vars

\* ---- vocabulary of the properties ----

IsInsert(op) ==
    op \in {"insert", "insert_with_handle", "insert_with_deps",
            "insert_with_handle_and_deps"}

IsInsertError(result) == result \in {"CyclicDependency", "DependencyNotFound"}

\* edge j -> i of the dependency graph: a handle bound to j is named in the
\* dependency list of i
Edge(sys, handles, j, i) ==
    \E k \in DOMAIN sys[i].dependencies :
        /\ sys[i].dependencies[k] \in DOMAIN handles
        /\ handles[sys[i].dependencies[k]] = j

\* j occurs before i in the vector
Precedes(sorted, j, i) ==
    \E p, q \in DOMAIN sorted : p < q /\ sorted[p] = j /\ sorted[q] = i

NoDuplicates(sorted) ==
    \A p, q \in DOMAIN sorted : p # q => sorted[p] # sorted[q]

\* C1: sort validity -- for every pair of registered systems i, j with an
\* edge j -> i, j occurs before i in systems_sorted, in every reachable state
C1_SortValidity ==
    \A i, j \in DOMAIN systems :
        Edge(systems, system_handles, j, i) => Precedes(systems_sorted, j, i)

\* C2: completeness -- the entries of systems_sorted are exactly the indices
\* present in systems, none of them twice
C2_Completeness ==
    /\ Range(systems_sorted) = DOMAIN systems
    /\ NoDuplicates(systems_sorted)

\* C3: rollback integrity -- an insertion that returns CyclicDependency or
\* DependencyNotFound leaves systems, system_handles, systems_sorted, borrows
\* and free_indices as they were before the call
C3_RollbackIntegrity ==
    [][(IsInsert(last'.op) /\ IsInsertError(last'.result))
        => UNCHANGED <<systems, system_handles, systems_sorted, borrows,
                       free_indices>>]_vars

\* the dependency graph an insertion call asks for: the containers before
\* the call with the new container installed at the call's index, under the
\* handle bindings after the call
AskedSystems ==
    MapInsert(systems, last'.index,
              SystemContainerNew(last'.system, last'.dependencies))

\* a set of systems each of which has a predecessor in the set
HasCycle(sys, handles) ==
    \E C \in (SUBSET DOMAIN sys) \ {{}} :
        \A i \in C : \E j \in C : Edge(sys, handles, j, i)

AllResolve(deps, handles) == \A k \in DOMAIN deps : deps[k] \in DOMAIN handles

\* C4: cycle rejection -- an insertion with a non-empty dependency list whose
\* dependencies all resolve and whose resulting graph has a cycle returns
\* CyclicDependency; an insertion whose resulting graph is acyclic and in
\* which every dependency resolves never returns CyclicDependency
C4_CycleRejection ==
    [][(IsInsert(last'.op) /\ Len(last'.dependencies) > 0)
        => /\ (/\ AllResolve(last'.dependencies, system_handles')
               /\ HasCycle(AskedSystems, system_handles'))
              => last'.result = "CyclicDependency"
           /\ (/\ \A i \in DOMAIN AskedSystems :
                     AllResolve(AskedSystems[i].dependencies, system_handles')
               /\ ~HasCycle(AskedSystems, system_handles'))
              => last'.result # "CyclicDependency"]_vars

\* C5: dangling dependency -- an insertion whose dependency list names a
\* handle that is not bound when the call is made returns DependencyNotFound
\* with the debug rendering of such a handle, and the registry is unchanged
C5_DanglingDependency ==
    [][(/\ IsInsert(last'.op)
        /\ ~AllResolve(last'.dependencies, system_handles))
        => /\ last'.result = "DependencyNotFound"
           /\ \E k \in DOMAIN last'.dependencies :
                 /\ last'.dependencies[k] \notin DOMAIN system_handles
                 /\ last'.err = ToString(last'.dependencies[k])
           /\ UNCHANGED <<systems, system_handles, systems_sorted,
                          free_indices>>]_vars

\* C6: insert(system) returns Ok(None) in every reachable state
C6_InsertReturnsNone ==
    [][last'.op = "insert" => (last'.result = "Ok" /\ last'.value = None)]_vars

\* C7: replacement preserves index -- a successful insertion with an already
\* bound handle h installs the new system at the index h was bound to,
\* returns the pair previously installed there, keeps the number of
\* registered systems and does not put the index on free_indices
C7_ReplacementPreservesIndex ==
    [][(/\ IsInsert(last'.op)
        /\ last'.handle \in DOMAIN system_handles
        /\ last'.result = "Ok")
        => /\ last'.index = system_handles[last'.handle]
           /\ system_handles'[last'.handle] = last'.index
           /\ last'.index \in DOMAIN systems'
           /\ systems'[last'.index] =
                 SystemContainerNew(last'.system, last'.dependencies)
           /\ last'.index \in DOMAIN systems
           /\ last'.value = UnwrapContainer(systems[last'.index])
           /\ Cardinality(DOMAIN systems') = Cardinality(DOMAIN systems)
           /\ last'.index \notin Range(free_indices')]_vars

\* C8: remove(h) of a bound handle returns the pair of h; afterwards h is not
\* contained, its index is absent from systems and systems_sorted, and every
\* other container, binding and relative position is unchanged; remove(h) of
\* an unbound handle returns None and changes nothing
C8_RemoveFrame ==
    [][last'.op = "remove"
        => IF Contains(system_handles, last'.handle)
           THEN LET index == system_handles[last'.handle]
                IN /\ index \in DOMAIN systems
                   /\ last'.value = UnwrapContainer(systems[index])
                   /\ ~Contains(system_handles', last'.handle)
                   /\ index \notin DOMAIN systems'
                   /\ index \notin Range(systems_sorted')
                   /\ systems' = MapRemove(systems, index)
                   /\ system_handles' = MapRemove(system_handles, last'.handle)
                   /\ systems_sorted' =
                         SelectSeq(systems_sorted, LAMBDA i : i # index)
           ELSE /\ last'.value = None
                /\ UNCHANGED <<systems, system_handles, systems_sorted,
                               free_indices, borrows>>]_vars

\* C9: index reuse -- remove(h) of a bound handle pushes the freed index on
\* free_indices; an insertion that creates a system takes the top of
\* free_indices when there is one and the number of registered systems
\* otherwise
C9_IndexReuse ==
    [][/\ (last'.op = "remove" /\ Contains(system_handles, last'.handle))
          => free_indices' = Append(free_indices, system_handles[last'.handle])
       /\ (IsInsert(last'.op) /\ ~Contains(system_handles, last'.handle))
          => IF Len(free_indices) > 0
             THEN /\ last'.index = free_indices[Len(free_indices)]
                  /\ free_indices' = SubSeq(free_indices, 1, Len(free_indices) - 1)
             ELSE last'.index = Cardinality(DOMAIN systems)]_vars

\* the calls insert A, insert B with deps [A], remove A on a new executor
RemoveDuringSession(h, a, b) ==
    /\ a # b
    /\ h = <<[op |-> "insert_with_handle", handle |-> a, dependencies |-> <<>>],
             [op |-> "insert_with_handle_and_deps", handle |-> b,
              dependencies |-> <<a>>],
             [op |-> "remove", handle |-> a, dependencies |-> <<>>]>>

\* C10: remove during session -- after insert A, insert B deps [A], remove A,
\* systems_sorted holds the index of B only; a following insertion of an
\* unrelated system with a non-empty resolving dependency list succeeds and
\* a following insertion of a system with dependency [A] returns
\* DependencyNotFound
C10_RemoveDuringSession ==
    [][\A a, b \in Handles :
          /\ RemoveDuringSession(history', a, b)
                => /\ Contains(system_handles', b)
                   /\ systems_sorted' = <<system_handles'[b]>>
          /\ (RemoveDuringSession(history, a, b) /\ IsInsert(last'.op))
                => /\ (/\ last'.handle \notin {a, b}
                       /\ Len(last'.dependencies) > 0
                       /\ AllResolve(last'.dependencies, system_handles))
                      => last'.result = "Ok"
                   /\ (last'.handle # a /\ last'.dependencies = <<a>>)
                      => last'.result = "DependencyNotFound"]_vars

\* ---- runs ----

Count(seq, x) == Cardinality({k \in DOMAIN seq : seq[k] = x})

ActiveSystems == {i \in DOMAIN systems : systems[i].active}

\* the systems_sorted entries a run invokes, in order
ActiveInOrder ==
    SelectSeq(systems_sorted,
              LAMBDA i : i \in DOMAIN systems /\ systems[i].active)

\* the registered systems i transitively depends on
RECURSIVE Ancestors(_)
Ancestors(S) ==
    LET T == S \cup {j \in DOMAIN systems :
                        \E i \in S : Edge(systems, system_handles, j, i)}
    IN IF T = S THEN S ELSE Ancestors(T)

TransitiveDeps(i) ==
    Ancestors({j \in DOMAIN systems : Edge(systems, system_handles, j, i)})

\* the stored borrow descriptors of i and j forbid running them together
Conflicting(i, j) ==
    /\ i # j
    /\ i \in DOMAIN borrows
    /\ j \in DOMAIN borrows
    /\ BorrowsConflict(borrows[i], borrows[j])

FirstPos(i) ==
    CHOOSE p \in DOMAIN systems_sorted :
        /\ systems_sorted[p] = i
        /\ \A q \in 1..(p - 1) : systems_sorted[q] # i

\* C11: sequential run -- a call of run invokes every active registered
\* system exactly once and no inactive one, in the order of systems_sorted,
\* each body only after the bodies of its active dependencies have returned
C11_SequentialRun ==
    exec.kind = "run"
    => /\ exec.mode # "panic"
       /\ \A i \in exec.running :
             \A j \in ActiveSystems :
                Edge(systems, system_handles, j, i) => Count(exec.finished, j) > 0
       /\ exec.mode = "done"
          => /\ \A i \in DOMAIN systems :
                   Count(exec.invoked, i) = IF systems[i].active THEN 1 ELSE 0
             /\ exec.invoked = ActiveInOrder

\* C12: inactive skip -- set_active(h, b) on a bound handle changes only the
\* active flag of the container of h, which a new container has set;
\* is_active(h) returns the flag; and a run with an inactive system invokes
\* every active system and no inactive one
C12_InactiveSkip ==
    [][/\ (last'.op = "set_active" /\ exec'.mode = "idle"
           /\ Contains(system_handles, last'.handle))
          => /\ last'.result = "Ok"
             /\ last'.index \in DOMAIN systems
             /\ systems' = [systems EXCEPT ![last'.index].active = last'.active]
             /\ UNCHANGED <<system_handles, systems_sorted, free_indices>>
       /\ (last'.op = "is_active" /\ exec'.mode = "idle"
           /\ Contains(system_handles, last'.handle))
          => /\ last'.index \in DOMAIN systems
             /\ last'.value = <<"Bool", systems[last'.index].active>>
       /\ (IsInsert(last'.op) /\ exec'.mode = "idle" /\ last'.result = "Ok")
          => systems'[last'.index].active
       /\ (exec'.mode \in {"done", "panic"} /\ ActiveSystems # DOMAIN systems)
          => \A i \in DOMAIN systems :
                (Count(exec'.invoked, i) > 0) = systems[i].active]_vars

\* C13: dependency observance -- during run_with_scope no body begins
\* before the body of every system in its transitive dependency set has
\* completed
C13_DependencyObservance ==
    exec.kind = "run_with_scope"
    => \A i \in exec.running :
          \A j \in TransitiveDeps(i) : Count(exec.finished, j) > 0

\* C14: conflict soundness -- at every instant of run_with_scope no two
\* running systems have conflicting borrows
C14_ConflictSoundness ==
    exec.kind = "run_with_scope"
    => \A i, j \in exec.running : ~Conflicting(i, j)

\* a body runs in run_with_scope while a conflicting active system is
\* scheduled in the same run
C14_Witness ==
    /\ exec.kind = "run_with_scope"
    /\ \E i \in exec.running :
          \E j \in ActiveSystems :
             Conflicting(i, j) /\ Count(systems_sorted, j) > 0

\* C15: run completion -- run_with_scope terminates without reaching a
\* failure, and when it returns every active system has been started and
\* has completed exactly once
C15_RunCompletion ==
    exec.kind = "run_with_scope"
    => /\ exec.mode # "panic"
       /\ exec.mode = "done"
          => \A i \in ActiveSystems :
                Count(exec.invoked, i) = 1 /\ Count(exec.finished, i) = 1

QueryOps == {"get_mut", "is_active", "set_active"}

\* C16: get_mut, is_active and set_active return NoSuchSystem for a handle
\* that is not bound, leaving the executor unchanged, and never return
\* NoSuchSystem for a bound handle
C16_NoSuchSystem ==
    [][(last'.op \in QueryOps /\ exec'.mode = "idle")
        => IF Contains(system_handles, last'.handle)
           THEN last'.result # "NoSuchSystem"
           ELSE /\ last'.result = "NoSuchSystem"
                /\ UNCHANGED <<systems, system_handles, free_indices,
                               systems_sorted, borrows, conflicts>>]_vars

\* a query on a handle that was bound and has been removed
C16_Witness ==
    /\ last.op \in QueryOps
    /\ last.result = "NoSuchSystem"
    /\ ~Contains(system_handles, last.handle)
    /\ DOMAIN systems # {}
    /\ \E k \in DOMAIN history :
          history[k].op = "remove" /\ history[k].handle = last.handle

\* every pair of systems not related by a dependency is conflict-free
NonDependentConflictFree ==
    \A i, j \in DOMAIN systems :
        Conflicting(i, j) => (j \in TransitiveDeps(i) \/ i \in TransitiveDeps(j))

\* a call of one of run, run_with_scope has ended right after a call of the
\* other on the same registry, world and resource state
BothRunsMade ==
    /\ exec.mode \in {"done", "panic"}
    /\ exec.prev # <<>>
    /\ exec.prev[1].kind # exec.kind
    /\ NonDependentConflictFree

C18_DeclaredOrder ==
    exec.kind = "run_with_scope"
    => \A i \in exec.running :
          \A j \in ActiveSystems :
             (/\ Conflicting(i, j)
              /\ Count(systems_sorted, j) > 0
              /\ FirstPos(j) < FirstPos(i))
             => Count(exec.finished, j) > 0

\* the later of two conflicting active systems is running
C18_Witness ==
    /\ exec.kind = "run_with_scope"
    /\ \E i \in exec.running :
          \E j \in ActiveSystems :
             /\ Conflicting(i, j)
             /\ Count(systems_sorted, j) > 0
             /\ FirstPos(j) < FirstPos(i)
             /\ Count(exec.finished, j) > 0

\* C19: index validity -- every index in systems_sorted and every index
\* bound in system_handles is a key of systems, and no call hits the
\* INVALID_INDEX expectation
C19_IndexValidity ==
    /\ Range(systems_sorted) \subseteq DOMAIN systems
    /\ Range(system_handles) \subseteq DOMAIN systems
    /\ exec.mode # "panic"
    /\ last.result # "panic"

\* C20: index uniqueness -- an insertion that creates a system gets an
\* index that is not a key of systems, displaces nothing, adds exactly one
\* system, and distinct handles stay bound to distinct indices
C20_IndexUniqueness ==
    [][(/\ IsInsert(last'.op)
        /\ exec'.mode = "idle"
        /\ ~Contains(system_handles, last'.handle))
        => /\ last'.index \notin DOMAIN systems
           /\ last'.value = None
           /\ Cardinality(DOMAIN systems') = Cardinality(DOMAIN systems) + 1
           /\ \A g, h \in DOMAIN system_handles' :
                 g # h => system_handles'[g] # system_handles'[h]]_vars
====
